---- MODULE Spec2Model ----
(***************************************************************************)
(* Model of the XDP program dhcp-ebpf/src/main.rs: one invocation of       *)
(* dhcp(ctx) over one frame [ctx.data(), ctx.data_end()).  The frame is a  *)
(* sequence of bytes; every header field is decoded from those bytes the   *)
(* way the code decodes it (native load followed by from_be / to_be).      *)
(***************************************************************************)
EXTENDS Integers, Sequences, FiniteSets

VARIABLES
    frame,              \* the bytes between ctx.data() and ctx.data_end()
    data,               \* ctx.data(): address of the first byte
    endian,             \* byte order of the build target (bpfel / bpfeb)
    pc,                 \* position of the invocation
    result,             \* value of try_dhcp(ctx), once it has returned
    verdict,            \* value returned by dhcp(ctx), once it has returned
    udp_payload_size,   \* local of try_dhcp (line 147)
    offset,             \* local of try_dhcp (line 152)
    count,              \* local of try_dhcp (line 153)
    log,                \* the info! events emitted so far, in order
    checks,             \* the <<offset, len>> ranges ptr_at answered with Some
    reads               \* the dereferences performed so far, in order

vars == <<frame, data, endian, pc, result, verdict, udp_payload_size, offset,
          count, log, checks, reads>>

----------------------------------------------------------------------------
(* Bounds of the model.                                                    *)

\* longest option region enumerated option by option
MaxOpts == 2
\* longest run of zero-length options (reaches past the iteration cap)
MaxRun == 72
\* bytes that may follow the UDP datagram inside the frame (link padding)
MaxTrailer == 3

----------------------------------------------------------------------------
(* Program constants.                                                      *)

XDP_ABORTED == 0
XDP_DROP == 1
XDP_PASS == 2

IPPROTO_UDP == 17
ETH_P_IP == 2048
\* mem::size_of of the kernel's packed ethhdr, iphdr and udphdr, and of the
\* repr(C) DhcpPacket
ETH_HDR_LEN == 14
IP_HDR_LEN == 20
UDP_HDR_LEN == 8
DHCP_HDR_LEN == 240

\* offsets of the fields read, inside the kernel's ethhdr, iphdr and udphdr
ethhdr_h_dest == 0
ethhdr_h_source == 6
ethhdr_h_proto == 12
iphdr_protocol == 9
udphdr_source == 0
udphdr_dest == 2
udphdr_len == 4

DHCP_SERVER_PORT == 67
OPT_END == 255
OPT_TARGET == 15
MAX_COUNT == 70

----------------------------------------------------------------------------
(* Frames handed to the program.                                           *)

Rep(b, n) == [i \in 1..n |-> b]

BE16(v) == <<v \div 256, v % 256>>

RECURSIVE Concat(_)
Concat(ss) == IF ss = <<>> THEN <<>> ELSE Head(ss) \o Concat(Tail(ss))

Take(s, n) == SubSeq(s, 1, n)

EthBytes(ethertype) ==
    <<170, 187, 204, 221, 238, 255>> \o <<17, 34, 51, 68, 85, 102>> \o BE16(ethertype)

IpBytes(protocol) ==
    <<69, 0, 1, 72, 0, 1, 0, 0, 64, protocol, 0, 0>> \o <<10, 0, 0, 1>> \o <<10, 0, 0, 5>>

UdpBytes(sport, dport, len) == BE16(sport) \o BE16(dport) \o BE16(len) \o <<0, 0>>

DhcpBytes ==
    <<2, 1, 6, 0>> \o <<18, 52, 86, 120>> \o <<0, 3>> \o <<0, 1>>
    \o <<0, 0, 0, 0>> \o <<10, 0, 0, 5>> \o <<10, 0, 0, 1>> \o <<0, 0, 0, 0>>
    \o <<17, 34, 51, 68, 85, 102>> \o Rep(0, 10) \o Rep(0, 192)
    \o <<99, 130, 83, 99>>

\* one option as it lies on the wire: type, length, value (the end option is
\* the single byte 255)
OptionShapes ==
    { <<1, 0>>,
      <<3, 2, 15, 255>>,
      <<15, 4, 104, 111, 115, 116>>,
      <<15, 9, 104, 111, 115, 116, 110, 97, 109, 101, 49>>,
      <<255>> }

RECURSIVE OptionLists(_)
OptionLists(n) ==
    IF n = 0 THEN { <<>> }
    ELSE LET shorter == OptionLists(n - 1)
         IN  shorter \cup { Append(l, o) : l \in { x \in shorter : Len(x) = n - 1 },
                                           o \in OptionShapes }

OptionRegions == { Concat(l) : l \in OptionLists(MaxOpts) }

RunRegions == { Concat(Rep(<<1, 0>>, k)) : k \in (MaxRun - 3)..MaxRun }

Trailers == { Rep(0, k) : k \in 0..MaxTrailer }

Datagram(ethertype, protocol, sport, udplen, region, trailer) ==
    EthBytes(ethertype) \o IpBytes(protocol) \o UdpBytes(sport, 68, udplen)
    \o DhcpBytes \o region \o trailer

ExactLen(region) == UDP_HDR_LEN + DHCP_HDR_LEN + Len(region)

\* ethertypes, protocols and ports on the wire, the expected ones and others
EtherTypes == {2048, 8, 34525}
Protocols == {17, 6}
SourcePorts == {67, 68, 17152}

\* every header combination over one option region, cut at every length
HeaderFrames ==
    LET region == <<1, 0, 15, 4, 104, 111, 115, 116, 255>>
    IN  UNION { LET full == Datagram(e, p, s, ExactLen(region), region, <<>>)
                IN  { Take(full, n) : n \in 0..Len(full) }
                : e \in EtherTypes, p \in Protocols, s \in SourcePorts }

\* DHCP server replies over every option region, with a declared UDP length
\* that is exact or that of an empty datagram, cut anywhere in the options
OptionFrames ==
    UNION { LET full == Datagram(2048, 17, 67, IF exact THEN ExactLen(r) ELSE UDP_HDR_LEN, r, t)
                first == ETH_HDR_LEN + IP_HDR_LEN + UDP_HDR_LEN + DHCP_HDR_LEN
            IN  { Take(full, n) : n \in first..Len(full) }
            : r \in OptionRegions, t \in Trailers, exact \in BOOLEAN }

RunFrames ==
    { Datagram(2048, 17, 67, ExactLen(r), r, <<>>) : r \in RunRegions }

Frames == HeaderFrames \cup OptionFrames \cup RunFrames

DataAddrs == {65792, 1114368}

Endians == {"little", "big"}

----------------------------------------------------------------------------
(* Memory and conversions.                                                 *)

data_end == data + Len(frame)

\* the byte at an address; the frame is the only memory the model holds, and
\* an address outside it reads as 0
Mem(addr) ==
    IF addr >= data /\ addr < data_end THEN frame[addr - data + 1] ELSE 0

\* native loads of the build target
LoadU8(addr) == Mem(addr)

LoadU16(addr) ==
    IF endian = "little" THEN Mem(addr) + 256 * Mem(addr + 1)
    ELSE 256 * Mem(addr) + Mem(addr + 1)

LoadU32(addr) ==
    IF endian = "little"
    THEN Mem(addr) + 256 * Mem(addr + 1) + 65536 * Mem(addr + 2) + 16777216 * Mem(addr + 3)
    ELSE 16777216 * Mem(addr) + 65536 * Mem(addr + 1) + 256 * Mem(addr + 2) + Mem(addr + 3)

LoadBytes(addr, n) == [i \in 1..n |-> Mem(addr + i - 1)]

swap_bytes16(v) == (v % 256) * 256 + (v \div 256)

swap_bytes32(v) ==
    (v % 256) * 16777216 + ((v \div 256) % 256) * 65536
    + ((v \div 65536) % 256) * 256 + (v \div 16777216)

\* the conversion left out
from_be16_missing(v) == v

from_be16(v) == IF endian = "little" THEN swap_bytes16(v) ELSE v

to_be16(v) == IF endian = "little" THEN swap_bytes16(v) ELSE v

to_be32(v) == IF endian = "little" THEN swap_bytes32(v) ELSE v

\* usize::from_be_bytes([0, 0, m0 .. m5]), kept as its big-endian bytes
MacValue(mac) == <<0, 0>> \o mac

None == [some |-> FALSE]

Some(p) == [some |-> TRUE, ptr |-> p]

\* the check without the size of the value read
ptr_at_no_len(start, end, off, len) ==
    IF start + off > end THEN None ELSE Some(start + off)

ptr_at(start, end, off, len) ==
    IF start + off + len > end THEN None ELSE Some(start + off)

Ok(v) == [tag |-> "Ok", val |-> v]

Err(v) == [tag |-> "Err", val |-> v]

NoResult == [tag |-> "None"]

NoVerdict == [set |-> FALSE]

Verdict(v) == [set |-> TRUE, val |-> v]

Event(fmt, args) == [fmt |-> fmt, args |-> args]

Read(field, off, size) == [field |-> field, off |-> off, size |-> size]

\* try_dhcp returns r
Return(r) ==
    /\ pc' = "ret"
    /\ result' = r

----------------------------------------------------------------------------
(* The state after the host has handed a frame to the program.             *)

Init ==
    /\ frame \in Frames
    /\ data \in DataAddrs
    /\ endian \in Endians
    /\ pc = "eth"
    /\ result = NoResult
    /\ verdict = NoVerdict
    /\ udp_payload_size = 0
    /\ offset = 0
    /\ count = 0
    /\ log = <<>>
    /\ checks = {}
    /\ reads = <<>>

----------------------------------------------------------------------------
(* try_dhcp, lines 45-49: the Ethernet header.                             *)

EthIsIp(h_proto) == from_be16(h_proto) = ETH_P_IP

ReadEth ==
    /\ pc = "eth"
    /\ LET eth == ptr_at(data, data_end, 0, ETH_HDR_LEN)
       IN  IF ~eth.some
           THEN /\ Return(Err(XDP_PASS))
                /\ UNCHANGED <<checks, reads>>
           ELSE /\ checks' = checks \cup {<<0, ETH_HDR_LEN>>}
                /\ reads' = Append(reads, Read("h_proto", ethhdr_h_proto, 2))
                /\ IF EthIsIp(LoadU16(eth.ptr + ethhdr_h_proto))
                   THEN pc' = "ip" /\ UNCHANGED result
                   ELSE Return(Ok(XDP_PASS))
    /\ UNCHANGED <<frame, data, endian, verdict, udp_payload_size, offset, count, log>>

(* try_dhcp, lines 51-54: the IPv4 header.                                 *)

IpIsUdp(protocol) == protocol = IPPROTO_UDP

ReadIp ==
    /\ pc = "ip"
    /\ LET ip == ptr_at(data, data_end, ETH_HDR_LEN, IP_HDR_LEN)
       IN  IF ~ip.some
           THEN /\ Return(Err(XDP_PASS))
                /\ UNCHANGED <<checks, reads>>
           ELSE /\ checks' = checks \cup {<<ETH_HDR_LEN, IP_HDR_LEN>>}
                /\ reads' = Append(reads, Read("protocol", ETH_HDR_LEN + iphdr_protocol, 1))
                /\ IF IpIsUdp(LoadU8(ip.ptr + iphdr_protocol))
                   THEN pc' = "udp" /\ UNCHANGED result
                   ELSE Return(Ok(XDP_PASS))
    /\ UNCHANGED <<frame, data, endian, verdict, udp_payload_size, offset, count, log>>

(* try_dhcp, lines 56-95: the UDP header, the port filter, the first event. *)

FromServer(source_port) == source_port = DHCP_SERVER_PORT

ReadUdp ==
    /\ pc = "udp"
    /\ LET base == ETH_HDR_LEN + IP_HDR_LEN
           udp == ptr_at(data, data_end, base, UDP_HDR_LEN)
       IN  IF ~udp.some
           THEN /\ Return(Err(XDP_PASS))
                /\ UNCHANGED <<checks, reads, log>>
           ELSE LET source_port == from_be16(LoadU16(udp.ptr + udphdr_source))
                    destination_port == from_be16(LoadU16(udp.ptr + udphdr_dest))
                    portReads == <<Read("source", base + udphdr_source, 2),
                                   Read("dest", base + udphdr_dest, 2)>>
                IN  /\ checks' = checks \cup {<<base, UDP_HDR_LEN>>}
                    /\ IF ~FromServer(source_port)
                       THEN /\ Return(Ok(XDP_PASS))
                            /\ reads' = reads \o portReads
                            /\ UNCHANGED log
                       ELSE LET source_mac == LoadBytes(data + ethhdr_h_source, 6)
                                destination_mac == LoadBytes(data + ethhdr_h_dest, 6)
                            IN  /\ reads' = reads \o portReads
                                       \o <<Read("h_source", ethhdr_h_source, 6),
                                            Read("h_dest", ethhdr_h_dest, 6)>>
                                /\ log' = Append(log,
                                       Event("{:x} {} -> {:x} {}",
                                             <<MacValue(source_mac), source_port,
                                               MacValue(destination_mac), destination_port>>))
                                /\ pc' = "dhcp"
                                /\ UNCHANGED result
    /\ UNCHANGED <<frame, data, endian, verdict, udp_payload_size, offset, count>>

(* try_dhcp, lines 97-153: the fixed DHCP header, its events, the declared *)
(* UDP length, the loop's locals.                                          *)

\* offsets of the fields of DhcpPacket (repr(C))
DhcpField ==
    [operation_type |-> 0, hardware_type |-> 1, hardware_address_length |-> 2,
     hops |-> 3, transaction_id |-> 4, seconds_elapsed |-> 8, flags |-> 10,
     client_address |-> 12, your_address |-> 16, next_server_address |-> 20,
     relay_agent_address |-> 24, client_hardware_address |-> 28,
     magic_cookie |-> 236]

ReadDhcp ==
    /\ pc = "dhcp"
    /\ LET base == ETH_HDR_LEN + IP_HDR_LEN + UDP_HDR_LEN
           udp == data + ETH_HDR_LEN + IP_HDR_LEN
           dhcp == ptr_at(data, data_end, base, DHCP_HDR_LEN)
           F == DhcpField
       IN  IF ~dhcp.some
           THEN /\ Return(Err(XDP_PASS))
                /\ UNCHANGED <<checks, reads, log, udp_payload_size, offset, count>>
           ELSE LET p == dhcp.ptr
                    len == to_be16(LoadU16(udp + udphdr_len))
                IN  /\ checks' = checks \cup {<<base, DHCP_HDR_LEN>>}
                    /\ reads' = reads \o
                         << Read("operation_type", base + F.operation_type, 1),
                            Read("hardware_type", base + F.hardware_type, 1),
                            Read("hardware_address_length", base + F.hardware_address_length, 1),
                            Read("hops", base + F.hops, 1),
                            Read("transaction_id", base + F.transaction_id, 4),
                            Read("seconds_elapsed", base + F.seconds_elapsed, 2),
                            Read("flags", base + F.flags, 2),
                            Read("client_address", base + F.client_address, 4),
                            Read("your_address", base + F.your_address, 4),
                            Read("next_server_address", base + F.next_server_address, 4),
                            Read("relay_agent_address", base + F.relay_agent_address, 4),
                            Read("client_hardware_address", base + F.client_hardware_address, 6),
                            Read("magic_cookie", base + F.magic_cookie, 4),
                            Read("len", ETH_HDR_LEN + IP_HDR_LEN + udphdr_len, 2) >>
                    /\ log' = log \o
                         << Event("op = {} htype = {} hlen = {} hops = {}",
                                  <<LoadU8(p + F.operation_type), LoadU8(p + F.hardware_type),
                                    LoadU8(p + F.hardware_address_length), LoadU8(p + F.hops)>>),
                            Event("txid = {:x}", <<to_be32(LoadU32(p + F.transaction_id))>>),
                            Event("secs = {} flags = {:x}",
                                  <<LoadU16(p + F.seconds_elapsed), LoadU16(p + F.flags)>>),
                            Event("client address = {}", <<LoadU32(p + F.client_address)>>),
                            Event("your address = {}", <<LoadU32(p + F.your_address)>>),
                            Event("next server address = {}",
                                  <<LoadU32(p + F.next_server_address)>>),
                            Event("relay agent address = {}",
                                  <<LoadU32(p + F.relay_agent_address)>>),
                            Event("client hardware address = {:x}",
                                  <<MacValue(LoadBytes(p + F.client_hardware_address, 6))>>),
                            Event("magic cookie = {:x}", <<to_be32(LoadU32(p + F.magic_cookie))>>),
                            Event("packet length = {}", <<len>>) >>
                    /\ udp_payload_size' = len
                    /\ offset' = DHCP_HDR_LEN
                    /\ count' = 0
                    /\ pc' = "scan"
                    /\ UNCHANGED result
    /\ UNCHANGED <<frame, data, endian, verdict>>

(* try_dhcp, lines 154-240: the option loop, one iteration per step.       *)

LoopCond(off, size, end) == off < size /\ off < end

\* the two bytes of type and length not counted
Advance_no_header(off, length) == off + length

\* the value of the option not skipped
Advance_no_value(off, length) == off + 2

Advance(off, length) == off + 2 + length

SkipBreaks(cnt, off, end) == cnt >= MAX_COUNT \/ off >= end

IsEnd(opt_type) == opt_type = OPT_END

IsTarget(opt_type) == opt_type = OPT_TARGET

AssertHolds(start, off, end) ==
    start + ETH_HDR_LEN + IP_HDR_LEN + UDP_HDR_LEN + off + 9 + 1 < end

SliceEvent == Event("slice length = {}  ", <<data_end - data>>)

\* line 154: the loop condition is false, line 242 returns
LoopExit ==
    /\ pc = "scan"
    /\ ~LoopCond(offset, udp_payload_size, data_end)
    /\ Return(Ok(XDP_PASS))
    /\ UNCHANGED <<frame, data, endian, verdict, udp_payload_size, offset, count,
                   log, checks, reads>>

ScanOption ==
    /\ pc = "scan"
    /\ LoopCond(offset, udp_payload_size, data_end)
    /\ LET base == ETH_HDR_LEN + IP_HDR_LEN + UDP_HDR_LEN
           tp == ptr_at(data, data_end, base + offset, 1)
           lp == ptr_at(data, data_end, base + offset + 1, 1)
       IN  IF ~tp.some
           THEN /\ Return(Err(XDP_PASS))
                /\ UNCHANGED <<offset, count, log, checks, reads>>
           ELSE IF ~lp.some
           THEN /\ Return(Err(XDP_PASS))
                /\ checks' = checks \cup {<<base + offset, 1>>}
                /\ reads' = Append(reads, Read("opt_type", base + offset, 1))
                /\ UNCHANGED <<offset, count, log>>
           ELSE LET opt_type == LoadU8(tp.ptr)
                    length == LoadU8(lp.ptr)
                IN  /\ checks' = checks \cup {<<base + offset, 1>>, <<base + offset + 1, 1>>}
                    /\ reads' = reads \o <<Read("opt_type", base + offset, 1),
                                           Read("length", base + offset + 1, 1)>>
                    /\ IF IsEnd(opt_type)
                       THEN /\ Return(Ok(XDP_PASS))
                            /\ UNCHANGED <<offset, count, log>>
                       ELSE IF ~IsTarget(opt_type)
                       THEN /\ offset' = Advance(offset, length)
                            /\ log' = Append(log, Event("type = {} length = {}",
                                                        <<opt_type, length>>))
                            /\ IF SkipBreaks(count, offset', data_end)
                               THEN Return(Ok(XDP_PASS)) /\ UNCHANGED count
                               ELSE /\ count' = count + 1
                                    /\ UNCHANGED <<pc, result>>
                       ELSE IF AssertHolds(data, offset, data_end)
                       THEN /\ log' = log \o <<Event("found body {} {}", <<opt_type, length>>),
                                               SliceEvent>>
                            /\ Return(Ok(XDP_PASS))
                            /\ UNCHANGED <<offset, count>>
                       ELSE /\ log' = Append(log, Event("found body {} {}",
                                                        <<opt_type, length>>))
                            /\ pc' = "panic"
                            /\ UNCHANGED <<offset, count, result>>
    /\ UNCHANGED <<frame, data, endian, verdict, udp_payload_size>>

(* lines 199-202 and 277-280: the assertion failed, the panic handler runs *)
(* core::hint::unreachable_unchecked(), which is undefined behaviour.  The *)
(* build either drops the check (the failing branch is unreachable to the  *)
(* optimiser) and the code after the assertion runs, or control never      *)
(* comes back and the invocation ends without a verdict.                   *)

PanicElided ==
    /\ pc = "panic"
    /\ log' = Append(log, SliceEvent)
    /\ Return(Ok(XDP_PASS))
    /\ UNCHANGED <<frame, data, endian, verdict, udp_payload_size, offset, count,
                   checks, reads>>

PanicNoReturn ==
    /\ pc = "panic"
    /\ pc' = "aborted"
    /\ UNCHANGED <<frame, data, endian, result, verdict, udp_payload_size, offset,
                   count, log, checks, reads>>

(* dhcp, lines 12-17: the verdict.                                         *)

dhcp_verdict(r) == IF r.tag = "Ok" THEN r.val ELSE XDP_ABORTED

DhcpReturn ==
    /\ pc = "ret"
    /\ verdict' = Verdict(dhcp_verdict(result))
    /\ pc' = "done"
    /\ UNCHANGED <<frame, data, endian, result, udp_payload_size, offset, count,
                   log, checks, reads>>

----------------------------------------------------------------------------

Next ==
    \/ ReadEth
    \/ ReadIp
    \/ ReadUdp
    \/ ReadDhcp
    \/ LoopExit
    \/ ScanOption
    \/ PanicElided
    \/ PanicNoReturn
    \/ DhcpReturn

Spec == Init /\ [][Next]_vars

\* the program runs to completion: no step of the invocation is suspended
FairSpec == Spec /\ WF_vars(Next)

----------------------------------------------------------------------------
(* What the frame says on the wire, decoded without the program: network   *)
(* byte order, offsets relative to the frame or to the UDP payload.        *)

PayloadStart == ETH_HDR_LEN + IP_HDR_LEN + UDP_HDR_LEN

WireU8(off) == frame[off + 1]

WireU16(off) == 256 * frame[off + 1] + frame[off + 2]

WireEtherType == WireU16(12)

WireProtocol == WireU8(23)

WireSourcePort == WireU16(34)

WireUdpLength == WireU16(38)

WireOptType(o) == WireU8(PayloadStart + o)

WireOptLen(o) == WireU8(PayloadStart + o + 1)

Terminated == pc \in {"done", "aborted"}

\* the payload-relative offsets at which an option type byte was read, in order
OptOffsets ==
    LET IsOpt(r) == r.field = "opt_type"
        typeReads == SelectSeq(reads, IsOpt)
    IN  [i \in DOMAIN typeReads |-> typeReads[i].off - PayloadStart]

FoundEvents == { i \in DOMAIN log : log[i].fmt = "found body {} {}" }

ReadsEndBy(n) == \A i \in DOMAIN reads : reads[i].off + reads[i].size <= n

----------------------------------------------------------------------------
(* C1: every range ptr_at grants and every read the parser performs lies   *)
(* inside the frame (base + offset + size <= end), and every read lies     *)
(* inside a range ptr_at granted before it.                                *)
C1_ReadsInsideFrame ==
    /\ \A c \in checks : data + c[1] + c[2] <= data_end
    /\ \A i \in DOMAIN reads :
         /\ data + reads[i].off + reads[i].size <= data_end
         /\ \E c \in checks : /\ c[1] <= reads[i].off
                              /\ reads[i].off + reads[i].size <= c[1] + c[2]

\* a frame cut inside an option: the length byte is refused after the headers
\* and the option type byte were read
C1_Witness ==
    /\ pc = "done"
    /\ result.tag = "Err"
    /\ \E i \in DOMAIN reads : reads[i].field = "opt_type"

(* C2: every invocation ends; an iteration that continues the loop raises  *)
(* offset by at least 2 and count by 1, count never passes the cap, and    *)
(* the loop is left once offset has reached the declared UDP length.       *)
C2_Terminates ==
    /\ <>Terminated
    /\ [][(pc = "scan" /\ pc' = "scan") =>
            (offset' >= offset + 2 /\ count' = count + 1)]_vars
    /\ [](count <= MAX_COUNT)
    /\ [][(pc = "scan" /\ offset >= udp_payload_size) => pc' = "ret"]_vars

\* a region of more than 70 zero-length options was scanned up to the cap
C2_Witness ==
    /\ pc = "done"
    /\ count = MAX_COUNT
    /\ \A i \in DOMAIN OptOffsets : WireOptLen(OptOffsets[i]) = 0

(* C3: when a bounds-checked read fails, at any stage, the verdict of dhcp *)
(* is Continue (XDP_PASS).                                                 *)
C3_FailedReadPasses ==
    (pc = "done" /\ result.tag = "Err") => verdict = Verdict(XDP_PASS)

(* C4: the invocation never ends without a verdict and never panics: it    *)
(* ends with one of Continue, Drop, Error.                                 *)
C4_AlwaysAVerdict ==
    /\ pc \notin {"panic", "aborted"}
    /\ pc = "done" => (verdict.set /\ verdict.val \in {XDP_PASS, XDP_DROP, XDP_ABORTED})

C6_CapturesValue ==
    \A n \in DOMAIN OptOffsets :
        LET o == OptOffsets[n]
        IN  (/\ pc = "done"
             /\ WireOptType(o) = OPT_TARGET
             /\ Len(frame) >= PayloadStart + o + 2
             /\ Len(frame) >= PayloadStart + o + 2 + WireOptLen(o)
             /\ AssertHolds(data, o, data_end)) =>
                LET L == WireOptLen(o)
                    captured == [k \in 1..20 |->
                                   IF k <= L THEN WireU8(PayloadStart + o + 1 + k) ELSE 0]
                IN  \E i \in DOMAIN log :
                        \E k \in 1..(Len(log[i].args) - 19) :
                            SubSeq(log[i].args, k, k + 19) = captured

(* C7: reading the end option (255) ends the scan in that iteration with   *)
(* the verdict Continue, whether or not a byte follows it in the frame.    *)
C7_SentinelEndsScan ==
    \A n \in DOMAIN OptOffsets :
        WireOptType(OptOffsets[n]) = OPT_END =>
            /\ pc \in {"ret", "done"}
            /\ result = Ok(XDP_PASS)
            /\ pc = "done" => verdict = Verdict(XDP_PASS)

(* C8: every option type byte is read at a payload offset below            *)
(* udp_length - 8, the declared length of the UDP payload.                 *)
C8_ScanInsidePayload ==
    \A n \in DOMAIN OptOffsets : OptOffsets[n] < WireUdpLength - 8

(* C9: an invocation reads at most 70 option type bytes.                   *)
C9_AtMostCapIterations == Len(OptOffsets) <= 70

====
